---- MODULE Spec2Model ----
(***************************************************************************)
(* NeuroGrid: a 5x5 "lights-out" puzzle (src/app/page.tsx).  A move flips  *)
(* a node and its orthogonal neighbours; a GF(2) Gaussian elimination      *)
(* computes the set of moves that clears the board.                        *)
(*                                                                         *)
(* Encoding.  A JavaScript array of length n is a function with domain     *)
(* 0 .. n-1.  A value of type "T | null" is a record: Null, or Some(v).    *)
(* A seed (a double) is represented by what createPuzzle reads of it: the  *)
(* set of iterations whose sine hash passes the 0.35 threshold, and the    *)
(* index the fallback sine hash selects.                                   *)
(***************************************************************************)
EXTENDS Integers, Sequences, FiniteSets, TLC

VARIABLES seed, snapshot, hintIndex, showPlan, toggleMatrix, phase

vars == <<seed, snapshot, hintIndex, showPlan, toggleMatrix, phase>>

GRID_SIZE == 5

BOARD_CELLS == GRID_SIZE * GRID_SIZE

Cells == 0 .. (BOARD_CELLS - 1)

Null == [isNull |-> TRUE]

Some(v) == [isNull |-> FALSE, value |-> v]

\* JavaScript ^ on bits
Xor(a, b) == (a + b) % 2

\* JavaScript % (the remainder takes the sign of the dividend)
JsRem(a, b) == IF a >= 0 THEN a % b ELSE 0 - ((0 - a) % b)

baseOffsets == <<  <<0, 0>>, <<1, 0>>, <<-1, 0>>, <<0, 1>>, <<0, -1>>  >>

coordToIndex(row, col) == row * GRID_SIZE + col

indexToCoord(index) ==
    [row |-> index \div GRID_SIZE, col |-> JsRem(index, GRID_SIZE)]

InGrid(nr, nc) == nr >= 0 /\ nr < GRID_SIZE /\ nc >= 0 /\ nc < GRID_SIZE

ZeroBoard == [i \in Cells |-> 0]

\* The in-bounds neighbour indices the loop over baseOffsets visits for (row, col).
Neighbors(row, col) ==
    { coordToIndex(row + baseOffsets[k][1], col + baseOffsets[k][2]) :
        k \in { j \in 1 .. Len(baseOffsets) :
                  InGrid(row + baseOffsets[j][1], col + baseOffsets[j][2]) } }

buildToggleMatrix ==
    [neighborIndex \in Cells |->
        [idx \in Cells |->
            IF neighborIndex \in Neighbors(indexToCoord(idx).row, indexToCoord(idx).col)
            THEN 1 ELSE 0]]

(***************************************************************************)
(* gaussianEliminationGF2.  The elimination state st is the function's     *)
(* locals: matrix, vector, pivotColumns, currentRow.                       *)
(***************************************************************************)
RECURSIVE FindPivotRow(_, _, _, _)
FindPivotRow(matrix, rows, pivotRow, col) ==
    IF pivotRow < rows /\ matrix[pivotRow][col] = 0
    THEN FindPivotRow(matrix, rows, pivotRow + 1, col)
    ELSE pivotRow

SwapRows(a, i, j) == [a EXCEPT ![i] = a[j], ![j] = a[i]]

\* line 74: the rows of the working matrix are swapped
swapMatrix(matrix, currentRow, pivotRow) ==
    IF pivotRow # currentRow THEN SwapRows(matrix, currentRow, pivotRow) ELSE matrix

swapTargetForgotten(vector, currentRow, pivotRow) == vector

\* line 75: and so are the entries of the target
swapTarget(vector, currentRow, pivotRow) ==
    IF pivotRow # currentRow THEN SwapRows(vector, currentRow, pivotRow) ELSE vector

EliminateColumn(st, rows, cols, col) ==
    LET pivotRow == FindPivotRow(st.matrix, rows, st.currentRow, col)
    IN  IF pivotRow = rows
        THEN st
        ELSE LET cur == st.currentRow
                 m1  == swapMatrix(st.matrix, cur, pivotRow)
                 v1  == swapTarget(st.vector, cur, pivotRow)
                 piv == m1[cur]
             IN  [matrix |->
                    [row \in 0 .. (rows - 1) |->
                        IF row # cur /\ m1[row][col] = 1
                        THEN [k \in 0 .. (cols - 1) |->
                                IF k >= col THEN Xor(m1[row][k], piv[k]) ELSE m1[row][k]]
                        ELSE m1[row]],
                  vector |->
                    [row \in 0 .. (rows - 1) |->
                        IF row # cur /\ m1[row][col] = 1
                        THEN Xor(v1[row], v1[cur])
                        ELSE v1[row]],
                  pivotColumns |-> [st.pivotColumns EXCEPT ![cur] = col],
                  currentRow |-> cur + 1]

RECURSIVE Eliminate(_, _, _, _)
Eliminate(st, rows, cols, col) ==
    IF col < cols /\ st.currentRow < rows
    THEN Eliminate(EliminateColumn(st, rows, cols, col), rows, cols, col + 1)
    ELSE st

InconsistentUnchecked(st, rows, cols) == FALSE

\* lines 92-97
Inconsistent(st, rows, cols) ==
    \E row \in st.currentRow .. (rows - 1) :
        /\ \A k \in 0 .. (cols - 1) : st.matrix[row][k] = 0
        /\ st.vector[row] = 1

RECURSIVE Accumulate(_, _, _, _, _)
Accumulate(matrixRow, solution, accum, col, cols) ==
    IF col < cols
    THEN Accumulate(matrixRow, solution,
                    IF matrixRow[col] = 1 THEN Xor(accum, solution[col]) ELSE accum,
                    col + 1, cols)
    ELSE accum

RECURSIVE BackSubstitute(_, _, _, _)
BackSubstitute(st, solution, row, cols) ==
    IF row < 0
    THEN solution
    ELSE LET pivotCol == st.pivotColumns[row]
         IN  IF pivotCol = -1
             THEN BackSubstitute(st, solution, row - 1, cols)
             ELSE BackSubstitute(st,
                     [solution EXCEPT ![pivotCol] =
                        Accumulate(st.matrix[row], solution, st.vector[row], pivotCol + 1, cols) % 2],
                     row - 1, cols)

Eliminated(inputMatrix, inputVector) ==
    LET rows == Cardinality(DOMAIN inputMatrix)
        cols == Cardinality(DOMAIN inputMatrix[0])
    IN  Eliminate([matrix |-> inputMatrix,
                   vector |-> inputVector,
                   pivotColumns |-> [r \in 0 .. (rows - 1) |-> -1],
                   currentRow |-> 0],
                  rows, cols, 0)

inputMatrixAliased(inputMatrix, matrix) == matrix

\* What the caller's inputMatrix holds once the function has run on its working
\* matrix: line 57 makes the working matrix a deep copy, so no write reaches it.
inputMatrixAfter(inputMatrix, matrix) == inputMatrix

\* Lines 92-117 on the eliminated system.
Solve(st, rows, cols) ==
    IF Inconsistent(st, rows, cols)
    THEN Null
    ELSE Some(BackSubstitute(st, [c \in 0 .. (cols - 1) |-> 0], st.currentRow - 1, cols))

gaussianEliminationGF2(inputMatrix, inputVector) ==
    LET st == Eliminated(inputMatrix, inputVector)
    IN  Solve(st, Cardinality(DOMAIN inputMatrix), Cardinality(DOMAIN inputMatrix[0]))

(***************************************************************************)
(* toggleCell: a copy of the board with every in-bounds cell of the        *)
(* neighbourhood of index flipped.                                         *)
(***************************************************************************)
toggleCellSet(board, index) ==
    LET c == indexToCoord(index)
        flips == Neighbors(c.row, c.col)
    IN  [i \in DOMAIN board |-> IF i \in flips THEN 1 ELSE board[i]]

toggleCell(board, index) ==
    LET c == indexToCoord(index)
        flips == Neighbors(c.row, c.col)
    IN  [i \in DOMAIN board |-> IF i \in flips THEN Xor(board[i], 1) ELSE board[i]]

isSolved(board) == \A i \in DOMAIN board : board[i] = 0


(***************************************************************************)
(* computeSolution: the indices whose solution bit is 1, sorted by the     *)
(* comparator of lines 130-137.                                            *)
(***************************************************************************)
Abs(n) == IF n < 0 THEN 0 - n ELSE n

\* (GRID_SIZE - 1) / 2, which is the integer 2 on the 5x5 grid
center == (GRID_SIZE - 1) \div 2

centerDistance(index) ==
    Abs(indexToCoord(index).row - center) + Abs(indexToCoord(index).col - center)

planCompareByIndex(a, b) == a - b

\* da - db || ca.row - cb.row || ca.col - cb.col
planCompare(a, b) ==
    IF centerDistance(a) - centerDistance(b) # 0
    THEN centerDistance(a) - centerDistance(b)
    ELSE IF indexToCoord(a).row - indexToCoord(b).row # 0
         THEN indexToCoord(a).row - indexToCoord(b).row
         ELSE indexToCoord(a).col - indexToCoord(b).col

\* .filter(...).map(...): the indices with value & 1 = 1, in index order
RECURSIVE setIndices(_, _)
setIndices(solutionVector, index) ==
    IF index >= Cardinality(DOMAIN solutionVector)
    THEN << >>
    ELSE IF solutionVector[index] % 2 = 1
         THEN << index >> \o setIndices(solutionVector, index + 1)
         ELSE setIndices(solutionVector, index + 1)

\* Array.prototype.sort under planCompare (a stable insertion of each element)
RECURSIVE insertSorted(_, _)
insertSorted(sorted, x) ==
    IF sorted = << >>
    THEN << x >>
    ELSE IF planCompare(x, Head(sorted)) <= 0
         THEN << x >> \o sorted
         ELSE << Head(sorted) >> \o insertSorted(Tail(sorted), x)

RECURSIVE sortPlan(_)
sortPlan(indices) ==
    IF indices = << >>
    THEN << >>
    ELSE insertSorted(sortPlan(Tail(indices)), Head(indices))

planOf(solutionVector) ==
    IF solutionVector.isNull
    THEN Null
    ELSE Some(sortPlan(setIndices(solutionVector.value, 0)))

computeSolution(board) == planOf(gaussianEliminationGF2(toggleMatrix, board))

(***************************************************************************)
(* createPuzzle.  thresholdPasses is the test of lines 163-164 and         *)
(* fallbackIndex the index expression of line 172, both functions of the   *)
(* seed alone.                                                             *)
(***************************************************************************)
thresholdPasses(randomSeed, iteration) == iteration \in randomSeed.pass

fallbackIndex(randomSeed) == randomSeed.pick

RECURSIVE puzzleLoop(_, _, _, _)
puzzleLoop(randomSeed, board, toggles, iteration) ==
    IF iteration < BOARD_CELLS
    THEN IF thresholdPasses(randomSeed, iteration)
         THEN puzzleLoop(randomSeed, toggleCell(board, iteration % BOARD_CELLS),
                         toggles + 1, iteration + 1)
         ELSE puzzleLoop(randomSeed, board, toggles, iteration + 1)
    ELSE [board |-> board, toggles |-> toggles]

needsFallbackUntoggledOnly(loop) == loop.toggles = 0

\* line 171
needsFallback(loop) == loop.toggles = 0 \/ isSolved(loop.board)

createPuzzle(randomSeed) ==
    LET loop == puzzleLoop(randomSeed, ZeroBoard, 0, 0)
    IN  IF needsFallback(loop)
        THEN toggleCell(loop.board, fallbackIndex(randomSeed))
        ELSE loop.board

makeMoveUncounted(current, index) ==
    [board |-> toggleCell(current.board, index), moves |-> current.moves]

\* The updater handed to setSnapshot by makeMove.
makeMove(current, index) ==
    [board |-> toggleCell(current.board, index), moves |-> current.moves + 1]

(***************************************************************************)
(* Bounds and inputs.                                                      *)
(***************************************************************************)
\* moves played in one puzzle of a modelled session
MaxMoves == 1

\* set bits of an arbitrary input board
MaxBits == 2

\* seeds of the generator runs pass the threshold at iterations below this
MaxPassCell == 1

RowOf(i) == indexToCoord(i).row

ColOf(i) == indexToCoord(i).col

\* The three non-empty toggle sets that leave a 5x5 board unchanged.
QuietA == { i \in Cells : RowOf(i) # center /\ ColOf(i) % 2 = 0 }

QuietB == { i \in Cells : ColOf(i) # center /\ RowOf(i) % 2 = 0 }

QuietC == (QuietA \ QuietB) \cup (QuietB \ QuietA)

QuietPatterns == { QuietA, QuietB, QuietC }

\* A seed passing the threshold at about two iterations in three.
TypicalPass(r) == { i \in Cells : (i + r) % 3 # 0 }

GenSeeds ==
    [pass : (SUBSET (0 .. (MaxPassCell - 1))) \cup QuietPatterns, pick : Cells]

SessionSeeds ==
    { [pass |-> {}, pick |-> BOARD_CELLS - 1],
      [pass |-> QuietA, pick |-> 0],
      [pass |-> { center * GRID_SIZE + center }, pick |-> 0],
      [pass |-> TypicalPass(0), pick |-> center] }

HintSeeds ==
    SessionSeeds
      \cup [pass : { TypicalPass(r) : r \in 0 .. MaxPassCell }, pick : {0}]
      \cup [pass : { {} }, pick : (BOARD_CELLS - 3) .. (BOARD_CELLS - 1)]
      \cup [pass : { Cells, QuietB \cup {0}, QuietC \ {1} }, pick : {0}]

RECURSIVE BoardsUpTo(_)
BoardsUpTo(n) ==
    IF n = 0
    THEN { ZeroBoard }
    ELSE BoardsUpTo(n - 1)
           \cup { [b EXCEPT ![i] = 1] : b \in BoardsUpTo(n - 1), i \in Cells }

\* Indices a caller of makeMove may pass, in range or not.
MoveInputs == (-1) .. BOARD_CELLS

(***************************************************************************)
(* The session: useGameState and NeuralGrid.  phase is "mounted" while the *)
(* effects of the first render are pending and "idle" afterwards.  An      *)
(* event is handled together with the render and the effects it triggers.  *)
(***************************************************************************)
\* useMemo(() => computeSolution(board), [board])
aiPlan == computeSolution(snapshot.board)

\* useMemo(() => isSolved(board), [board])
solved == isSolved(snapshot.board)

\* toggleMatrix once a render has recomputed aiPlan for board.
renderedMatrix(board) ==
    inputMatrixAfter(toggleMatrix, Eliminated(toggleMatrix, board).matrix)

\* The [seed] effect (lines 185-187).
seedEffect(newSeed) == [board |-> createPuzzle(newSeed), moves |-> 0]

Mount(seeds) ==
    /\ seed \in seeds
    /\ snapshot = [board |-> createPuzzle(seed), moves |-> 0]
    /\ hintIndex = Null
    /\ showPlan = FALSE
    /\ toggleMatrix = buildToggleMatrix
    /\ phase = "mounted"

Init == Mount(SessionSeeds)

\* The effects of the first render: [seed] (lines 185-187), then the render of
\* the replaced snapshot and [board] (lines 215-218).
SeedEffect ==
    /\ phase = "mounted"
    /\ snapshot' = seedEffect(seed)
    /\ toggleMatrix' = renderedMatrix(snapshot'.board)
    /\ hintIndex' = Null
    /\ showPlan' = FALSE
    /\ phase' = "idle"
    /\ UNCHANGED seed

\* reset: setSeed, the [seed] effect, the render and the [board] effect.
Reset(seeds) ==
    /\ phase = "idle"
    /\ \E next \in seeds :
          /\ seed' = next
          /\ snapshot' = seedEffect(next)
    /\ toggleMatrix' = renderedMatrix(snapshot'.board)
    /\ hintIndex' = Null
    /\ showPlan' = FALSE
    /\ UNCHANGED phase

Shuffle == Reset(SessionSeeds)

\* handleCellClick: play(index) and the hint's reset (lines 231-234), the
\* render, and the [board] effect (lines 215-218), which clears hint and plan.
HandleCellClick(index) ==
    /\ phase = "idle"
    /\ snapshot' = makeMove(snapshot, index)
    /\ toggleMatrix' = renderedMatrix(snapshot'.board)
    /\ hintIndex' = Null
    /\ showPlan' = FALSE
    /\ UNCHANGED <<seed, phase>>

hintTargetLast(plan) == plan[Len(plan)]

\* aiPlan[0] (line 225)
hintTarget(plan) == Head(plan)

RequestHint ==
    /\ phase = "idle"
    /\ LET plan == aiPlan
       IN  IF plan.isNull \/ Len(plan.value) = 0
           THEN /\ hintIndex' = Null
                /\ showPlan' = showPlan
           ELSE /\ hintIndex' = Some(hintTarget(plan.value))
                /\ showPlan' = TRUE
    /\ UNCHANGED <<seed, snapshot, toggleMatrix, phase>>

\* onRevealPlan
RevealPlan ==
    /\ phase = "idle"
    /\ showPlan' = ~showPlan
    /\ UNCHANGED <<seed, snapshot, hintIndex, toggleMatrix, phase>>

Click ==
    /\ snapshot.moves < MaxMoves
    /\ \E index \in Cells : HandleCellClick(index)

Next ==
    \/ SeedEffect
    \/ Shuffle
    \/ Click
    \/ RequestHint
    \/ RevealPlan

Spec == Init /\ [][Next]_vars

(***************************************************************************)
(* makeMove called with any index a caller may pass.                       *)
(***************************************************************************)
MoveCall ==
    /\ snapshot.moves < MaxMoves
    /\ \E index \in MoveInputs : HandleCellClick(index)

NextMove ==
    \/ SeedEffect
    \/ MoveCall

SpecMove == Init /\ [][NextMove]_vars

(***************************************************************************)
(* createPuzzle on the seeds of GenSeeds.                                  *)
(***************************************************************************)
InitGen == Mount(GenSeeds)

NextGen == SeedEffect

SpecGen == InitGen /\ [][NextGen]_vars

(***************************************************************************)
(* The player who requests a hint and plays it, again and again.           *)
(***************************************************************************)
InitHint == Mount(HintSeeds)

PlayHint ==
    /\ ~hintIndex.isNull
    /\ snapshot.moves < BOARD_CELLS
    /\ HandleCellClick(hintIndex.value)

NextHint ==
    \/ SeedEffect
    \/ RequestHint
    \/ PlayHint

SpecHint == InitHint /\ [][NextHint]_vars

(***************************************************************************)
(* toggleCell and computeSolution on arbitrary boards, solvable or not.    *)
(***************************************************************************)
InitBoards ==
    /\ seed = [pass |-> {}, pick |-> 0]
    /\ snapshot \in { [board |-> b, moves |-> 0] : b \in BoardsUpTo(MaxBits) }
    /\ hintIndex = Null
    /\ showPlan = FALSE
    /\ toggleMatrix = buildToggleMatrix
    /\ phase = "idle"

ToggleOnce ==
    /\ snapshot.moves = 0
    /\ \E index \in Cells : HandleCellClick(index)

SpecToggle == InitBoards /\ [][ToggleOnce]_vars

\* A hint is requested on the board.
NextBoards == RequestHint

SpecBoards == InitBoards /\ [][NextBoards]_vars

\* The plan panel is opened and closed on the board.
NextPanel == RevealPlan

SpecPanel == InitBoards /\ [][NextPanel]_vars

(***************************************************************************)
(* Helpers of the properties.                                              *)
(***************************************************************************)
\* M.x over GF(2)
MatVec(M, x) ==
    [i \in DOMAIN M |-> Cardinality({ j \in DOMAIN x : M[i][j] = 1 /\ x[j] = 1 }) % 2]

Weight(x) == Cardinality({ j \in DOMAIN x : x[j] = 1 })

\* toggleCell applied at every index whose bit is 1 in x
RECURSIVE applyVector(_, _, _)
applyVector(board, x, index) ==
    IF index >= BOARD_CELLS
    THEN board
    ELSE applyVector(IF x[index] = 1 THEN toggleCell(board, index) ELSE board, x, index + 1)

RECURSIVE SeqToSet(_)
SeqToSet(q) == IF q = << >> THEN {} ELSE { Head(q) } \cup SeqToSet(Tail(q))

\* a comes no later than b in the order of the plan
PlanOrdered(a, b) ==
    \/ centerDistance(a) < centerDistance(b)
    \/ /\ centerDistance(a) = centerDistance(b)
       /\ \/ RowOf(a) < RowOf(b)
          \/ RowOf(a) = RowOf(b) /\ ColOf(a) <= ColOf(b)

RECURSIVE PlanSorted(_)
PlanSorted(q) ==
    \/ Len(q) <= 1
    \/ /\ PlanOrdered(Head(q), Head(Tail(q)))
       /\ PlanSorted(Tail(q))

IsCorner(i) ==
    /\ RowOf(i) \in {0, GRID_SIZE - 1}
    /\ ColOf(i) \in {0, GRID_SIZE - 1}

IsBorder(i) ==
    \/ RowOf(i) \in {0, GRID_SIZE - 1}
    \/ ColOf(i) \in {0, GRID_SIZE - 1}

ExpectedPopcount(i) == IF IsCorner(i) THEN 3 ELSE IF IsBorder(i) THEN 4 ELSE 5

Indicator(S) == [i \in Cells |-> IF i \in S THEN 1 ELSE 0]

XorVec(x, y) == [i \in Cells |-> Xor(x[i], y[i])]

\* columns that received no pivot
FreeColumns(st) ==
    Cells \ { st.pivotColumns[r] : r \in 0 .. (st.currentRow - 1) }

(***************************************************************************)
(* Properties.                                                             *)
(***************************************************************************)

\* C1: on every board of a session (a createPuzzle output, or a board reached
\* from one by moves at indices 0..24) gaussianEliminationGF2(toggleMatrix,
\* board) returns a vector, never null, and toggling every index whose bit is 1
\* in that vector turns the board into the all-zero board.
C1_ReachableBoardIsSolved ==
    LET solution == gaussianEliminationGF2(toggleMatrix, snapshot.board)
    IN  /\ ~solution.isNull
        /\ applyVector(snapshot.board, solution.value, 0) = ZeroBoard

C1_Witness ==
    /\ phase = "idle"
    /\ snapshot.moves >= 1
    /\ ~isSolved(snapshot.board)
    /\ Weight(gaussianEliminationGF2(toggleMatrix, snapshot.board).value) >= 2

\* C2: a move at an index outside 0..24 leaves the snapshot as it was: no bit
\* of the board is flipped and the counter is not incremented.
C2_OutOfRangeMoveRejected ==
    [][\A index \in MoveInputs \ Cells :
          HandleCellClick(index) => snapshot' = snapshot]_vars

C4_MoveCounter ==
    [][/\ \/ snapshot' = snapshot
          \/ /\ seed' = seed
             /\ snapshot'.moves = snapshot.moves + 1
             /\ \E index \in Cells : snapshot'.board = toggleCell(snapshot.board, index)
          \/ snapshot' = [board |-> createPuzzle(seed'), moves |-> 0]
       /\ snapshot'.moves < snapshot.moves
            => snapshot' = [board |-> createPuzzle(seed'), moves |-> 0]
       /\ (~hintIndex'.isNull \/ showPlan') => snapshot' = snapshot
       /\ RevealPlan => snapshot' = snapshot]_vars

C4_Witness ==
    /\ snapshot.moves >= 1
    /\ showPlan
    /\ ~hintIndex.isNull

\* C5: toggling a board twice at the same index of 0..24 gives the board back,
\* and a toggled board has the 25 cells of the board it was made from.
C5_ToggleSelfInverse ==
    \A index \in Cells :
        /\ toggleCell(toggleCell(snapshot.board, index), index) = snapshot.board
        /\ DOMAIN toggleCell(snapshot.board, index) = Cells
        /\ DOMAIN snapshot.board = Cells

C5_Witness ==
    /\ snapshot.moves = 1
    /\ Weight(snapshot.board) >= BOARD_CELLS \div GRID_SIZE

\* C6: the vector returned for a solvable board is 0 at every column without a
\* pivot, and no other vector x with toggleMatrix.x = board has fewer 1-bits.
\* (The other vectors tried are the returned one combined with a toggle set
\* that leaves every board unchanged.)
C6_MinimalSupport ==
    LET st == Eliminated(toggleMatrix, snapshot.board)
        solution == Solve(st, BOARD_CELLS, BOARD_CELLS)
    IN  ~solution.isNull =>
          /\ \A col \in FreeColumns(st) : solution.value[col] = 0
          /\ \A quiet \in QuietPatterns :
                MatVec(toggleMatrix, XorVec(solution.value, Indicator(quiet))) = snapshot.board
                  => Weight(solution.value) <= Weight(XorVec(solution.value, Indicator(quiet)))

\* C7: computeSolution returns null exactly when the solver does; otherwise
\* its plan holds exactly the indices whose bit is 1 in the solver's vector,
\* each once, by non-decreasing distance to the centre, then row, then column;
\* the plan of the all-zero board is the empty plan, which is not null.
C7_PlanIsSortedSupport ==
    LET solution == gaussianEliminationGF2(toggleMatrix, snapshot.board)
        plan == computeSolution(snapshot.board)
    IN  /\ plan.isNull <=> solution.isNull
        /\ ~plan.isNull =>
             /\ SeqToSet(plan.value) = { i \in Cells : solution.value[i] = 1 }
             /\ Len(plan.value) = Weight(solution.value)
             /\ PlanSorted(plan.value)
        /\ isSolved(snapshot.board) => plan = Some(<< >>)
        /\ Null # Some(<< >>)

C7_Witness ==
    LET plan == computeSolution(snapshot.board)
    IN  /\ ~hintIndex.isNull
        /\ ~plan.isNull
        /\ Len(plan.value) >= 3
        /\ centerDistance(Head(plan.value)) = centerDistance(Head(Tail(plan.value)))

\* C8: toggleMatrix is symmetric, row i has 3 set bits when cell i is a corner,
\* 4 when it is another border cell and 5 when it is interior, and it is the
\* matrix buildToggleMatrix built, whatever was generated, moved or solved.
C8_ToggleMatrixFixed ==
    /\ \A i \in Cells : \A j \in Cells : toggleMatrix[i][j] = toggleMatrix[j][i]
    /\ \A i \in Cells : Weight(toggleMatrix[i]) = ExpectedPopcount(i)
    /\ toggleMatrix = buildToggleMatrix

C8_Witness ==
    /\ phase = "idle"
    /\ snapshot.moves = MaxMoves
    /\ hintIndex = Null

\* C9: a vector the solver returns satisfies toggleMatrix.x = board, so a board
\* for which no such x exists (such as a board with an odd number of set bits
\* in a toggle set that leaves every board unchanged) gets null; and null is
\* returned exactly when, after the elimination, a row past the last pivot row
\* is all-zero with target bit 1.
C9_UnsolvableBoardGetsNull ==
    LET st == Eliminated(toggleMatrix, snapshot.board)
        solution == Solve(st, BOARD_CELLS, BOARD_CELLS)
    IN  /\ ~solution.isNull => MatVec(toggleMatrix, solution.value) = snapshot.board
        /\ (\E quiet \in QuietPatterns :
               Cardinality({ i \in quiet : snapshot.board[i] = 1 }) % 2 = 1)
             => solution.isNull
        /\ solution.isNull <=>
             \E row \in st.currentRow .. (BOARD_CELLS - 1) :
                 /\ st.vector[row] = 1
                 /\ Weight(st.matrix[row]) = 0

C9_Witness ==
    /\ showPlan
    /\ gaussianEliminationGF2(toggleMatrix, snapshot.board).isNull
    /\ Weight(snapshot.board) = MaxBits

\* C10: while the player plays the hint, the plan after a hinted move is the
\* plan before it without its first element; so the moves played and the
\* length of the plan always add up to the length of the puzzle's first plan,
\* and the board is solved exactly when the plan is empty.
C10_HintMakesProgress ==
    phase = "idle" =>
      LET plan == aiPlan
          first == computeSolution(createPuzzle(seed))
      IN  /\ ~plan.isNull
          /\ Len(plan.value) + snapshot.moves = Len(first.value)
          /\ plan.value # << >> =>
               computeSolution(makeMove(snapshot, hintTarget(plan.value)).board)
                 = Some(Tail(plan.value))
          /\ solved <=> plan.value = << >>

C10_Witness ==
    /\ solved
    /\ snapshot.moves >= GRID_SIZE

====
